---- MODULE Spec2Model ----
(***************************************************************************)
(* Model of the CV builder session controller (CVBuilder), its export      *)
(* pipeline (handleDownloadPDF), its scale-to-fit effect (calculateScale),  *)
(* the form layer (CVEditor), the renderer (CVPreview) and the progress     *)
(* indicator (CVProgress.calculateCompleteness).                            *)
(***************************************************************************)
EXTENDS Integers, Sequences, FiniteSets, TLC

(* ------------------------------------------------------------------ *)
(* Bounds of the model                                                 *)
(* ------------------------------------------------------------------ *)
MaxRuns == 2        \* invocations of handleDownloadPDF that are tracked
MaxMounts == 2      \* export subtrees alive at once (the mounted one, detached ones still referenced)
MaxDelta == 1       \* container widths range over cvWidth-MaxDelta .. cvWidth+MaxDelta, and 0
MaxInstances == 2   \* CVPreview instances rendered side by side
MaxClock == 1       \* milliseconds Date.now() advances during a session
MaxEntries == 5     \* entries a collection of the form holds

(* ------------------------------------------------------------------ *)
(* Program constants                                                   *)
(* ------------------------------------------------------------------ *)
NULL == "null"

cvWidth == 794

TemplateIds == {"professional", "creative", "executive", "minimal"}

templates ==
  [ professional |-> [hasPhoto |-> TRUE,  columns |-> 2, color |-> "blue"],
    creative     |-> [hasPhoto |-> TRUE,  columns |-> 1, color |-> "purple"],
    executive    |-> [hasPhoto |-> TRUE,  columns |-> 2, color |-> "green"],
    minimal      |-> [hasPhoto |-> FALSE, columns |-> 1, color |-> "gray"] ]

colorOptions == {"slate", "rose", "emerald", "amber", "blue", "orange"}

\* a text is the sequence of its characters; every character that is not a space is "x"
Text(n) == [i \in 1 .. n |-> "x"]

Blank(n) == [i \in 1 .. n |-> " "]

\* a month value "YYYY-MM" is the pair <<YYYY, MM>>, the empty string is <<>>
NoDate == <<>>

initialCVData ==
  [ personalInfo |-> [fullName |-> "", jobTitle |-> "", email |-> "", phone |-> "",
                      address |-> "", website |-> "", photoUrl |-> ""],
    summary |-> <<>>,
    workExperience |-> <<>>,
    education |-> <<>>,
    skills |-> <<>>,
    languages |-> <<>>,
    certifications |-> <<>>,
    references |-> <<>> ]

placeholderData ==
  [ personalInfo |-> [fullName |-> "Your Name", jobTitle |-> "Your Job Title",
                      email |-> "your.email@example.com", phone |-> "+1 (555) 000-0000",
                      address |-> "Your City, State", website |-> "www.yourwebsite.com",
                      photoUrl |-> ""],
    summary |-> Text(116),
    workExperience |->
      << [id |-> "placeholder-1", jobTitle |-> "Job Title 1", company |-> "Company Name",
          startDate |-> NoDate, endDate |-> NoDate, current |-> FALSE,
          responsibilities |-> <<Text(20), Text(20), Text(20)>>],
         [id |-> "placeholder-2", jobTitle |-> "Job Title 2", company |-> "Previous Company",
          startDate |-> NoDate, endDate |-> NoDate, current |-> FALSE,
          responsibilities |-> <<Text(30), Text(30)>>] >>,
    education |->
      << [id |-> "placeholder-1", degree |-> "Your Degree", fieldOfStudy |-> "Field of Study",
          institution |-> "Institution Name", startDate |-> NoDate, endDate |-> NoDate,
          grade |-> "Your average"] >>,
    skills |->
      << [id |-> "placeholder-1", name |-> "Skill 1", level |-> "Advanced"],
         [id |-> "placeholder-2", name |-> "Skill 2", level |-> "Expert"],
         [id |-> "placeholder-3", name |-> "Skill 3", level |-> "Intermediate"],
         [id |-> "placeholder-4", name |-> "Skill 4", level |-> "Advanced"] >>,
    languages |->
      << [id |-> "placeholder-1", name |-> "Language 1", proficiency |-> "Native"],
         [id |-> "placeholder-2", name |-> "Language 2", proficiency |-> "Fluent"] >>,
    certifications |->
      << [id |-> "placeholder-1", name |-> "Certification Name",
          issuer |-> "Issuing Organization", date |-> NoDate, expiryDate |-> NoDate] >>,
    references |->
      << [id |-> "placeholder-1", name |-> "Reference Name", email |-> "reference@company.com",
          phone |-> "+1 (555) 000-0000", organization |-> "Company Name"] >> ]

Widths == {0} \cup ((cvWidth - MaxDelta) .. (cvWidth + MaxDelta))

PhotoUrls == {"photo"}

Summaries == {<<>>, Text(5)}

Runs == 1 .. MaxRuns

Mounts == 1 .. MaxMounts

GENERATING == "Generating PDF..."

DOWNLOADED == "PDF Downloaded!"

FAILED == "Download Failed"

(* ------------------------------------------------------------------ *)
(* The colour resolver of CVPreview                                    *)
(* ------------------------------------------------------------------ *)
colorMap ==
  [ slate   |-> [primary |-> "215, 25%, 27%", secondary |-> "215, 25%, 95%", accent |-> "215, 25%, 20%"],
    rose    |-> [primary |-> "11, 70%, 84%",  secondary |-> "11, 70%, 95%",  accent |-> "11, 70%, 74%"],
    emerald |-> [primary |-> "164, 44%, 80%", secondary |-> "164, 44%, 95%", accent |-> "164, 44%, 70%"],
    amber   |-> [primary |-> "0, 0%, 49%",    secondary |-> "0, 0%, 95%",    accent |-> "0, 0%, 39%"],
    blue    |-> [primary |-> "217, 91%, 60%", secondary |-> "217, 91%, 95%", accent |-> "217, 91%, 50%"],
    orange  |-> [primary |-> "20, 90%, 48%",  secondary |-> "20, 90%, 95%",  accent |-> "20, 90%, 40%"] ]

\* keys every object literal inherits from Object.prototype
ObjectPrototypeKeys ==
  {"constructor", "toString", "valueOf", "hasOwnProperty", "__proto__"}

UNDEFINED == [undefined |-> TRUE]

\* the value a JavaScript property read colorMap[key] yields:
\* the own property, else the inherited one, else undefined
PropertyRead(key) ==
  IF key \in DOMAIN colorMap THEN colorMap[key]
  ELSE IF key \in ObjectPrototypeKeys THEN [inherited |-> key]
  ELSE UNDEFINED

\* Object.prototype.hasOwnProperty.call(colorMap, key)
HasOwnProperty(key) == key \in DOMAIN colorMap

\* the lookup without the own-property test: colorMap[colorName] || colorMap.slate
getColorValuesInherited(colorName) ==
  IF PropertyRead(colorName) # UNDEFINED THEN PropertyRead(colorName)
  ELSE PropertyRead("slate")

getColorValues(colorName) ==
  LET key == IF HasOwnProperty(colorName) THEN colorName ELSE "slate"
  IN  PropertyRead(key)

\* value.field as JavaScript reads it: undefined when the field is missing
Field(value, f) == IF f \in DOMAIN value THEN value[f] ELSE "undefined"

\* the CSS variables bound on the root of one CVPreview instance
colorVars(color) ==
  [ primary   |-> Field(getColorValues(color), "primary"),
    secondary |-> Field(getColorValues(color), "secondary"),
    accent    |-> Field(getColorValues(color), "accent") ]

\* the colour names a CVPreview instance is rendered with
ColorNames ==
  colorOptions \cup {"purple", "green", "gray", "", "not-a-real-color"}
    \cup ObjectPrototypeKeys

Instances == 1 .. MaxInstances

(* ------------------------------------------------------------------ *)
(* The scale-to-fit computation                                        *)
(* ------------------------------------------------------------------ *)
\* scale factors are kept as exact fractions num/den
ONE == [num |-> 1, den |-> 1]

\* containerWidth / cvWidth with no clamp
computeScaleUnclamped(containerWidth) == [num |-> containerWidth, den |-> cvWidth]

\* Math.min(containerWidth / cvWidth, 1)
computeScale(containerWidth) ==
  LET ratio == [num |-> containerWidth, den |-> cvWidth]
  IN  IF ratio.num * ONE.den < ONE.num * ratio.den THEN ratio ELSE ONE

VARIABLES
  mounted,          \* the CVBuilder component is mounted
  selectedTemplate, \* useState: template id or NULL
  cvData,           \* useState: the CVData aggregate
  previewMode,      \* useState
  templateColor,    \* useState
  previewScale,     \* useState
  editedFields,     \* useState: the set of field keys flagged edited
  thumbColors,      \* useState: the colour picked under each thumbnail of the chooser ("" = none)
  clientWidth,      \* width of the preview container under the current window size
  effectPending,    \* the scale effect is scheduled and has not run yet
  registered,       \* the closures the last effect run added (by captured previewMode); its cleanup removes them
  listeners,        \* window's resize listeners added by CVBuilder: captured previewMode -> count
  exportNode,       \* exportRef.current: the export subtree (a node id), 0 = null
  img,              \* the img element of each export subtree that is alive
  hasFontsAPI,      \* "fonts" in document
  fontsLoading,     \* document.fonts.ready is pending
  runs,             \* the invocations of handleDownloadPDF
  started,          \* number of invocations so far
  toasts,           \* the titles each invocation passed to toast(), in order
  reader,           \* the FileReader of a photo upload in progress: the closure's data and the file
  instColor,        \* template.color of each rendered CVPreview instance
  instVars,         \* the colour variables bound on each instance's root
  instMounted,      \* which CVPreview instances are in the document
  instProps,        \* the props of each instance's last render
  instTree,         \* the tree each instance's last render returned
  documentStyle,    \* the custom properties set on document.documentElement.style
  timeZone,         \* the host's offset from UTC, in hours (what Date and Intl read)
  progressData,     \* the data prop of CVProgress
  progress,         \* what calculateCompleteness returned in the last render of CVProgress
  now               \* Date.now(), in milliseconds since the session began

sessionVars ==
  <<selectedTemplate, cvData, previewMode, templateColor, previewScale, editedFields, thumbColors>>

scaleVars == <<clientWidth, effectPending, registered, listeners>>

domVars == <<exportNode, img>>

exportVars == <<hasFontsAPI, fontsLoading, runs, started, toasts>>

editorVars == <<reader, now>>

renderVars == <<instColor, instVars, instMounted, instProps, instTree, documentStyle, timeZone,
                progressData, progress>>

vars == <<mounted, sessionVars, scaleVars, domVars, exportVars, editorVars, renderVars>>

(* ------------------------------------------------------------------ *)
(* The renderer: CVPreview                                             *)
(* ------------------------------------------------------------------ *)
\* a || b on strings: a when it is not empty, else b
Or(a, b) == IF a # "" THEN a ELSE b

\* String.prototype.trim on a text: the spaces at both ends are dropped
RECURSIVE trim(_)
trim(text) ==
  IF text = <<>> THEN text
  ELSE IF Head(text) = " " THEN trim(Tail(text))
  ELSE IF text[Len(text)] = " " THEN trim(SubSeq(text, 1, Len(text) - 1))
  ELSE text

MonthShort ==
  <<"Jan", "Feb", "Mar", "Apr", "May", "Jun", "Jul", "Aug", "Sep", "Oct", "Nov", "Dec">>

\* formatDate: new Date("YYYY-MM") is midnight UTC of the first day of the month, and
\* toLocaleDateString("en-US", {year, month: "short"}) prints the month and year that
\* instant has in the host's time zone
formatDate(dateString) ==
  IF dateString = NoDate THEN <<>>
  ELSE LET year == dateString[1]
           month == dateString[2]
       IN  IF timeZone >= 0 THEN <<MonthShort[month], year>>
           ELSE IF month = 1 THEN <<MonthShort[12], year - 1>>
           ELSE <<MonthShort[month - 1], year>>

levels == [Beginner |-> 25, Intermediate |-> 50, Advanced |-> 75, Expert |-> 100]

\* levels[level] as JavaScript reads it: the own property, else the one inherited from
\* Object.prototype, else undefined
LevelRead(level) ==
  IF level \in DOMAIN levels THEN [number |-> levels[level]]
  ELSE IF level \in ObjectPrototypeKeys THEN [inherited |-> level]
  ELSE UNDEFINED

\* getSkillLevel: levels[level] ?? 50
getSkillLevel(level) ==
  IF LevelRead(level) # UNDEFINED THEN LevelRead(level) ELSE [number |-> 50]

\* an end date that shows the stored endDate whenever there is one
workEndDateStored(exp) ==
  IF exp.current /\ exp.endDate = NoDate THEN <<"Present">> ELSE formatDate(exp.endDate)

\* the end of a work-experience period: exp.current ? "Present" : formatDate(exp.endDate)
workEndDate(exp) == IF exp.current THEN <<"Present">> ELSE formatDate(exp.endDate)

\* the <img> of the photo slot: template.hasPhoto && <img src={photoUrl || DEFAULT_AVATAR_URL}>
DEFAULT_AVATAR_URL == "default-avatar"

photoSlot(data, template) ==
  IF template.hasPhoto
  THEN <<[img |-> Or(data.personalInfo.photoUrl, DEFAULT_AVATAR_URL)]>>
  ELSE <<>>

\* one entry per contact field that is not empty
contactLines(data, fields) ==
  SelectSeq([i \in DOMAIN fields |-> data.personalInfo[fields[i]]], LAMBDA v : v # "")

\* the Contact block of the sidebar: the heading, then the lines of the fields that are set
contactSection(data) ==
  <<[title |-> "Contact",
     lines |-> contactLines(data, <<"email", "phone", "address", "website">>)]>>

\* the name and job title block
headerBlock(data) ==
  [ fullName |-> Or(data.personalInfo.fullName, "Your Name"),
    jobTitle |-> Or(data.personalInfo.jobTitle, "Your Job Title") ]

\* the header's outer div and the band inside it: for "minimal" the outer div carries
\* styles.headerStyle (a bottom border in the primary colour) and there is no band, for
\* any other id the outer div has a plain bottom border and the band carries headerStyle
headerFrame(template) ==
  IF template.id = "minimal"
  THEN [ outer |-> "cv-header-minimal", band |-> <<>> ]
  ELSE [ outer |-> "border-b border-border",
         band |-> << IF template.id \in {"professional", "creative", "executive"}
                     THEN "cv-header-" \o template.id ELSE "" >> ]

\* {data.summary && <div>...Professional Summary...</div>}
summarySection(data) ==
  IF data.summary # <<>>
  THEN <<[title |-> "Professional Summary", text |-> data.summary]>>
  ELSE <<>>

\* {template.id === "creative" && <div className="absolute left-0 top-0 w-1 h-full ..."/>}
accentBar(template) == template.id = "creative"

workExperienceSection(data, template) ==
  IF Len(data.workExperience) > 0
  THEN <<[title |-> "Work Experience",
          items |-> [i \in DOMAIN data.workExperience |->
                       LET exp == data.workExperience[i]
                       IN  [ accentBar |-> accentBar(template),
                             jobTitle |-> exp.jobTitle,
                             company |-> exp.company,
                             startDate |-> formatDate(exp.startDate),
                             endDate |-> workEndDate(exp),
                             responsibilities |->
                               IF Len(exp.responsibilities) > 0
                               THEN SelectSeq(exp.responsibilities, LAMBDA r : trim(r) # <<>>)
                               ELSE <<>> ]]]>>
  ELSE <<>>

\* the Education section; bar is the accent bar of an entry in the layout that renders it
educationSection(data, bar) ==
  IF Len(data.education) > 0
  THEN <<[title |-> "Education",
          items |-> [i \in DOMAIN data.education |->
                       LET edu == data.education[i]
                       IN  [ accentBar |-> bar,
                             degree |-> edu.degree,
                             fieldOfStudy |-> edu.fieldOfStudy,
                             institution |-> edu.institution,
                             startDate |-> formatDate(edu.startDate),
                             endDate |-> formatDate(edu.endDate),
                             grade |-> edu.grade ]]]>>
  ELSE <<>>

\* a Skills section that is rendered without the length test
skillsSectionAlways(data) ==
  <<[title |-> "Skills",
     items |-> [i \in DOMAIN data.skills |->
                  [ name |-> data.skills[i].name,
                    level |-> data.skills[i].level,
                    width |-> getSkillLevel(data.skills[i].level) ]]]>>

\* each skill is a name, its level text, and a bar of width getSkillLevel(level) percent
skillsSection(data) ==
  IF Len(data.skills) > 0
  THEN <<[title |-> "Skills",
          items |-> [i \in DOMAIN data.skills |->
                       [ name |-> data.skills[i].name,
                         level |-> data.skills[i].level,
                         width |-> getSkillLevel(data.skills[i].level) ]]]>>
  ELSE <<>>

languagesSection(data) ==
  IF Len(data.languages) > 0
  THEN <<[title |-> "Languages",
          items |-> [i \in DOMAIN data.languages |->
                       [ name |-> data.languages[i].name,
                         proficiency |-> data.languages[i].proficiency ]]]>>
  ELSE <<>>

certificationsSection(data) ==
  IF Len(data.certifications) > 0
  THEN <<[title |-> "Certifications",
          items |-> [i \in DOMAIN data.certifications |->
                       [ name |-> data.certifications[i].name,
                         issuer |-> data.certifications[i].issuer,
                         date |-> formatDate(data.certifications[i].date) ]]]>>
  ELSE <<>>

referencesSection(data) ==
  IF Len(data.references) > 0
  THEN <<[title |-> "References",
          items |-> [i \in DOMAIN data.references |->
                       [ name |-> data.references[i].name,
                         organization |-> data.references[i].organization,
                         email |-> data.references[i].email,
                         phone |-> data.references[i].phone ]]]>>
  ELSE <<>>

\* template.columns === 2: the sidebar (photo, contact, skills, languages, certifications,
\* references) and the right column (header, summary, work experience, education)
twoColumn(data, template) ==
  [ sidebar |-> [ photo |-> photoSlot(data, template),
                  contact |-> contactSection(data),
                  sections |-> skillsSection(data) \o languagesSection(data)
                                 \o certificationsSection(data) \o referencesSection(data) ],
    header |-> [ photo |-> <<>>, contact |-> <<>>, block |-> headerBlock(data),
                 frame |-> headerFrame(template) ],
    sections |-> summarySection(data) \o workExperienceSection(data, template)
                   \o educationSection(data, accentBar(template)) ]

\* any other columns value: the header (photo, name, contact) and all sections in one flow;
\* the education entries of this layout have no accent bar
singleColumn(data, template) ==
  [ sidebar |-> [ photo |-> <<>>, contact |-> <<>>, sections |-> <<>> ],
    header |-> [ photo |-> photoSlot(data, template),
                 contact |-> contactLines(data, <<"email", "phone", "address">>),
                 block |-> headerBlock(data), frame |-> headerFrame(template) ],
    sections |-> summarySection(data) \o workExperienceSection(data, template)
                   \o educationSection(data, FALSE)
                   \o skillsSection(data) \o languagesSection(data)
                   \o certificationsSection(data) \o referencesSection(data) ]

\* the classes of the outer wrapper
wrapperClasses(isPreview, isPDF, unbounded) ==
  (IF unbounded THEN {} ELSE {"cv-a4", "overflow-hidden"})
    \cup (IF isPDF THEN {"bg-white"} ELSE {"bg-background", "border", "rounded-lg", "shadow-card"})
    \cup (IF isPreview THEN {"text-xs"} ELSE {"text-sm"})

unboundedStyle(isPDF, unbounded) ==
  IF ~unbounded THEN <<>>
  ELSE IF isPDF THEN [width |-> "210mm", minHeight |-> "297mm"]
  ELSE [width |-> "794px", minHeight |-> "1123px"]

\* the tree one render of CVPreview returns
CVPreview(props) ==
  [ className |-> wrapperClasses(props.isPreview, props.isPDF, props.unbounded),
    style |-> unboundedStyle(props.isPDF, props.unbounded) @@ colorVars(props.template.color),
    body |-> IF props.template.columns = 2
             THEN twoColumn(props.data, props.template)
             ELSE singleColumn(props.data, props.template) ]

\* the template prop CVBuilder builds: { ...template, color }
templateProp(id, color) ==
  [ id |-> id, hasPhoto |-> templates[id].hasPhoto, columns |-> templates[id].columns,
    color |-> color ]

NoVars == <<>>

defaultProps ==
  [ data |-> initialCVData, template |-> templateProp("professional", "blue"),
    isPreview |-> TRUE, isPDF |-> FALSE, unbounded |-> FALSE ]

\* what a commit of CVPreview does to document.documentElement.style when it sets the
\* three custom properties there from an effect
documentStyleInjected(doc, color) == colorVars(color)

\* what a commit of CVPreview does to document.documentElement.style: CVPreview has no
\* effect and touches no element outside its own tree
documentStyleAfterCommit(doc, color) == doc

\* the custom properties an instance's classes resolve: those of its own root when it
\* binds them, else the ones inherited from the document element
resolvedVars(i) ==
  IF {"primary", "secondary", "accent"} \subseteq DOMAIN instTree[i].style
  THEN [k \in {"primary", "secondary", "accent"} |-> instTree[i].style[k]]
  ELSE documentStyle

(* ------------------------------------------------------------------ *)
(* The progress indicator: CVProgress.calculateCompleteness            *)
(* ------------------------------------------------------------------ *)
\* JavaScript values that are not numbers are kept with their type
Str(s) == [string |-> s]

Txt(t) == [text |-> t]

Bool(b) == [boolean |-> b]

\* ToBoolean: a string is truthy when it is not empty (a text: when it has a character)
Truthy(v) ==
  IF "boolean" \in DOMAIN v THEN v.boolean
  ELSE IF "text" \in DOMAIN v THEN v.text # <<>>
  ELSE v.string # ""

\* a && b: a when a is falsy, else b
And(a, b) == IF Truthy(a) THEN b ELSE a

\* Math.round(n / d) for n >= 0, d > 0
Round(n, d) == (2 * n + d) \div (2 * d)

\* sections.filter(section => section.complete).length
RECURSIVE CountComplete(_)
CountComplete(sections) ==
  IF sections = <<>> THEN 0
  ELSE (IF Truthy(Head(sections).complete) THEN 1 ELSE 0) + CountComplete(Tail(sections))

calculateCompleteness(data) ==
  LET totalSections == 5
      personalComplete == And(Str(data.personalInfo.fullName),
                              And(Str(data.personalInfo.email), Str(data.personalInfo.phone)))
      summaryComplete == And(Txt(data.summary), Bool(Len(data.summary) > 20))
      workComplete == Bool(/\ Len(data.workExperience) > 0
                           /\ \E i \in DOMAIN data.workExperience :
                                 LET exp == data.workExperience[i]
                                 IN  exp.jobTitle # "" /\ exp.company # ""
                                     /\ exp.startDate # NoDate)
      educationComplete == Bool(/\ Len(data.education) > 0
                                /\ \E i \in DOMAIN data.education :
                                      LET edu == data.education[i]
                                      IN  edu.degree # "" /\ edu.institution # "")
      skillsComplete == Bool(/\ Len(data.skills) > 0
                             /\ \E i \in DOMAIN data.skills : data.skills[i].name # "")
      sections == << [name |-> "Personal Information", complete |-> personalComplete],
                     [name |-> "Summary", complete |-> summaryComplete],
                     [name |-> "Work Experience", complete |-> workComplete],
                     [name |-> "Education", complete |-> educationComplete],
                     [name |-> "Skills", complete |-> skillsComplete] >>
      completedSections == CountComplete(sections)
  IN  [percentage |-> Round(completedSections * 100, totalSections), sections |-> sections]

(* ------------------------------------------------------------------ *)
(* Views and refs                                                      *)
(* ------------------------------------------------------------------ *)
\* the template chooser is rendered (the early return of CVBuilder)
ChooserView == mounted /\ selectedTemplate = NULL

\* the builder view is rendered: header, editor or full preview, hidden export node
BuilderView == mounted /\ selectedTemplate # NULL

\* previewContainerRef.current is attached: the editor branch of the builder view
ContainerMounted == BuilderView /\ ~previewMode

\* the props of the on-screen preview of the builder view
previewProps ==
  [ data |-> cvData, template |-> templateProp(selectedTemplate, templateColor),
    isPreview |-> TRUE, isPDF |-> FALSE, unbounded |-> TRUE ]

\* the props of the CVPreview inside the hidden export node of the builder view
exportProps ==
  [ data |-> cvData, template |-> templateProp(selectedTemplate, templateColor),
    isPreview |-> FALSE, isPDF |-> TRUE, unbounded |-> TRUE ]

\* the inline style of the div that wraps the on-screen preview of the editor branch
previewWrapperStyle == [transform |-> previewScale, transformOrigin |-> "top center"]

\* the inline style of the div that wraps the hidden export node
exportWrapperStyle == [position |-> "fixed", top |-> "0", left |-> "-10000px", zIndex |-> "-1"]

\* no thumbnail has a colour of its own
NoThumbColors == [t \in TemplateIds |-> ""]

NoRun == [pc |-> "none", awaits |-> 0, element |-> 0, raster |-> "none"]

NoImg == [exists |-> FALSE, complete |-> FALSE, handler |-> 0]

Init ==
  /\ mounted = TRUE
  /\ selectedTemplate = NULL
  /\ cvData = initialCVData
  /\ previewMode = FALSE
  /\ templateColor = "blue"
  /\ previewScale = ONE
  /\ editedFields = {}
  /\ thumbColors = NoThumbColors
  /\ clientWidth \in Widths
  /\ effectPending = TRUE
  /\ registered = {}
  /\ listeners = [pm \in BOOLEAN |-> 0]
  /\ exportNode = 0
  /\ img = [g \in Mounts |-> NoImg]
  /\ hasFontsAPI \in BOOLEAN
  /\ fontsLoading \in BOOLEAN
  /\ runs = [r \in Runs |-> NoRun]
  /\ started = 0
  /\ toasts = [r \in Runs |-> <<>>]
  /\ reader = <<>>
  /\ now = 0
  /\ timeZone = 0
  /\ documentStyle = NoVars
  /\ instMounted = [i \in Instances |-> TRUE]
  /\ instProps = [i \in Instances |-> defaultProps]
  /\ instColor = [i \in Instances |-> "blue"]
  /\ instVars = [i \in Instances |-> colorVars("blue")]
  /\ instTree = [i \in Instances |-> CVPreview(defaultProps)]
  /\ progressData = initialCVData
  /\ progress = calculateCompleteness(initialCVData)

(* ------------------------------------------------------------------ *)
(* The scale effect: useEffect(..., [selectedTemplate, previewMode])   *)
(* ------------------------------------------------------------------ *)
\* calculateScale with neither guard: the container width is read and written
\* (an unmounted container is read as width 0)
calculateScaleUnguarded(capturedPreviewMode, containerWidth, scale) ==
  computeScale(IF ContainerMounted THEN containerWidth ELSE 0)

\* calculateScale as closed over the previewMode of the render that created it;
\* the ref is read when it runs
calculateScale(capturedPreviewMode, containerWidth, scale) ==
  IF ~ContainerMounted \/ capturedPreviewMode THEN scale
  ELSE computeScale(containerWidth)

\* window.addEventListener("resize", calculateScale)
addEventListener(ls, closure) == [ls EXCEPT ![closure] = @ + 1]

\* a cleanup that leaves the listeners attached
effectCleanupNone(ls, reg) == ls

\* the effect's cleanup: window.removeEventListener("resize", calculateScale)
\* for the closure the effect run added (reg is empty before the first run)
effectCleanup(ls, reg) ==
  [pm \in BOOLEAN |-> IF pm \in reg /\ ls[pm] > 0 THEN ls[pm] - 1 ELSE ls[pm]]

NumListeners == listeners[TRUE] + listeners[FALSE]

\* a dependency list without previewMode
effectDepsTemplateOnly(template, pm) == <<template>>

\* the dependency list of the effect: [selectedTemplate, previewMode]
effectDeps(template, pm) == <<template, pm>>

\* the scale, listeners and cleanup after the scheduled effect has run:
\* cleanup of the previous run, calculateScale(), addEventListener
Flushed ==
  IF effectPending
  THEN [ scale     |-> calculateScale(previewMode, clientWidth, previewScale),
         listeners |-> addEventListener(effectCleanup(listeners, registered), previewMode),
         registered |-> {previewMode} ]
  ELSE [ scale |-> previewScale, listeners |-> listeners, registered |-> registered ]

\* the passive effect of the last commit runs
RunEffect ==
  /\ mounted /\ effectPending
  /\ previewScale' = Flushed.scale
  /\ listeners' = Flushed.listeners
  /\ registered' = Flushed.registered
  /\ effectPending' = FALSE
  /\ UNCHANGED <<mounted, thumbColors, selectedTemplate, cvData, previewMode, templateColor, editedFields,
                 clientWidth, domVars, exportVars, editorVars, renderVars>>

\* the value calculateScale leaves when every attached listener has been called
RECURSIVE callListeners(_, _, _, _)
callListeners(ls, pm, containerWidth, scale) ==
  IF ls[pm] = 0 THEN scale
  ELSE callListeners([ls EXCEPT ![pm] = @ - 1], pm, containerWidth,
                     calculateScale(pm, containerWidth, scale))

\* the window is resized: the container gets width w and the resize event is dispatched
Resize(w) ==
  /\ w # clientWidth
  /\ clientWidth' = w
  /\ previewScale' = callListeners(listeners, TRUE, w, callListeners(listeners, FALSE, w, previewScale))
  /\ UNCHANGED <<mounted, thumbColors, selectedTemplate, cvData, previewMode, templateColor, editedFields,
                 effectPending, registered, listeners, domVars, exportVars, editorVars, renderVars>>

(* ------------------------------------------------------------------ *)
(* Handlers of the session controller                                  *)
(* ------------------------------------------------------------------ *)
\* templates.find(t => t.id === templateId)?.color ?? "blue"
templateDefaultColor(templateId) ==
  IF templateId \in DOMAIN templates THEN templates[templateId].color ELSE "blue"

\* the colour a thumbnail of the chooser is shown in: thumbColors[template.id] ?? template.color
chosenColor(templateId) ==
  IF thumbColors[templateId] # "" THEN thumbColors[templateId] ELSE templates[templateId].color

\* chosenColor || thumbColors[templateId] || (templates.find(...)?.color ?? "blue"), with
\* the chosenColor the thumbnail's onClick passes
selectedColor(templateId) ==
  Or(chosenColor(templateId), Or(thumbColors[templateId], templateDefaultColor(templateId)))

\* a colour swatch under a thumbnail:
\* setThumbColors(prev => ({ ...prev, [template.id]: opt.value }))
SetThumbColor(templateId, c) ==
  /\ ChooserView
  /\ thumbColors[templateId] # c
  /\ thumbColors' = [thumbColors EXCEPT ![templateId] = c]
  /\ UNCHANGED <<mounted, selectedTemplate, cvData, previewMode, templateColor, previewScale,
                 editedFields, scaleVars, domVars, exportVars, editorVars, renderVars>>

\* an export subtree is alive while it is mounted, while a run waits for its img, or
\* while the collaborator works on it; any other is garbage
Alive(g, node, rs) ==
  \/ g = node
  \/ \E r \in Runs : rs[r].pc = "images" /\ rs[r].awaits = g
  \/ \E r \in Runs : rs[r].pc = "raster" /\ rs[r].element = g

\* the imgs that are left when the subtrees that are no longer alive are collected;
\* a resolver whose run no longer waits does nothing when called and is kept as 0
Collect(im, node, rs) ==
  [g \in Mounts |->
     IF ~Alive(g, node, rs) THEN NoImg
     ELSE IF im[g].handler # 0 /\ rs[im[g].handler].pc = "images" /\ rs[im[g].handler].awaits = g
          THEN im[g]
          ELSE [im[g] EXCEPT !.handler = 0]]

FreeNodes == {g \in Mounts : ~Alive(g, exportNode, runs)}

\* the builder view is committed: a new export subtree with its img (if the template has a photo)
MountBuilder(t) ==
  LET g == CHOOSE n \in FreeNodes : \A m \in FreeNodes : n <= m
  IN  /\ exportNode' = g
      /\ img' = [img EXCEPT ![g] =
                   [exists |-> templates[t].hasPhoto, complete |-> FALSE, handler |-> 0]]

\* a selection that keeps the data and the edited-field flags of the session
handleTemplateSelectKeepsEdits(t) ==
  /\ ChooserView
  /\ FreeNodes # {}
  /\ selectedTemplate' = t
  /\ templateColor' = selectedColor(t)
  /\ previewScale' = Flushed.scale
  /\ listeners' = Flushed.listeners
  /\ registered' = Flushed.registered
  /\ effectPending' = (effectDeps(selectedTemplate', previewMode) # effectDeps(selectedTemplate, previewMode))
  /\ MountBuilder(t)
  /\ UNCHANGED <<mounted, thumbColors, cvData, editedFields, previewMode, clientWidth, exportVars,
                 editorVars, renderVars>>

handleTemplateSelect(t) ==
  /\ ChooserView
  /\ FreeNodes # {}
  /\ selectedTemplate' = t
  /\ cvData' = placeholderData
  /\ editedFields' = {}
  /\ templateColor' = selectedColor(t)
  /\ previewScale' = Flushed.scale
  /\ listeners' = Flushed.listeners
  /\ registered' = Flushed.registered
  /\ effectPending' = (effectDeps(selectedTemplate', previewMode) # effectDeps(selectedTemplate, previewMode))
  /\ MountBuilder(t)
  /\ UNCHANGED <<mounted, thumbColors, previewMode, clientWidth, exportVars, editorVars, renderVars>>

\* "Back to Templates": setSelectedTemplate(null); the builder view is unmounted
BackToTemplates ==
  /\ BuilderView
  /\ selectedTemplate' = NULL
  /\ previewScale' = Flushed.scale
  /\ listeners' = Flushed.listeners
  /\ registered' = Flushed.registered
  /\ effectPending' = (effectDeps(selectedTemplate', previewMode) # effectDeps(selectedTemplate, previewMode))
  /\ exportNode' = 0
  /\ img' = Collect(img, 0, runs)
  /\ UNCHANGED <<mounted, thumbColors, cvData, previewMode, templateColor, editedFields, clientWidth,
                 exportVars, editorVars, renderVars>>

\* "Preview" / "Edit": setPreviewMode(!previewMode)
TogglePreview ==
  /\ BuilderView
  /\ previewMode' = ~previewMode
  /\ previewScale' = Flushed.scale
  /\ listeners' = Flushed.listeners
  /\ registered' = Flushed.registered
  /\ effectPending' = (effectDeps(selectedTemplate, previewMode') # effectDeps(selectedTemplate, previewMode))
  /\ UNCHANGED <<mounted, thumbColors, selectedTemplate, cvData, templateColor, editedFields, clientWidth,
                 domVars, exportVars, editorVars, renderVars>>

\* a colour change that goes through the reset of a template selection
SetTemplateColorResets(c) ==
  /\ BuilderView
  /\ c # templateColor
  /\ templateColor' = c
  /\ cvData' = placeholderData
  /\ editedFields' = {}
  /\ UNCHANGED <<mounted, thumbColors, selectedTemplate, previewMode, previewScale,
                 scaleVars, domVars, exportVars, editorVars, renderVars>>

\* a colour button of the builder header: setTemplateColor(color.value)
SetTemplateColor(c) ==
  /\ BuilderView
  /\ c # templateColor
  /\ templateColor' = c
  /\ UNCHANGED <<mounted, thumbColors, selectedTemplate, cvData, previewMode, previewScale, editedFields,
                 scaleVars, domVars, exportVars, editorVars, renderVars>>

\* CVBuilder is torn down (navigation away): the effect's cleanup runs, the refs are
\* detached, the component's state is dropped (kept here as the initial values), and a
\* FileReader still reading finds no component to update
Unmount ==
  /\ mounted
  /\ mounted' = FALSE
  /\ listeners' = effectCleanup(Flushed.listeners, Flushed.registered)
  /\ registered' = {}
  /\ effectPending' = FALSE
  /\ exportNode' = 0
  /\ img' = Collect(img, 0, runs)
  /\ selectedTemplate' = NULL
  /\ cvData' = initialCVData
  /\ previewMode' = FALSE
  /\ templateColor' = "blue"
  /\ previewScale' = ONE
  /\ editedFields' = {}
  /\ thumbColors' = NoThumbColors
  /\ reader' = <<>>
  /\ UNCHANGED <<clientWidth, exportVars, now, renderVars>>

(* ------------------------------------------------------------------ *)
(* The form layer, as far as it reaches the export subtree             *)
(* ------------------------------------------------------------------ *)
\* the img of the mounted export subtree re-renders with src = photoUrl || DEFAULT_AVATAR_URL;
\* a changed src starts a new load
imgAfterData(newData) ==
  IF exportNode # 0 /\ img[exportNode].exists /\ newData.personalInfo.photoUrl # cvData.personalInfo.photoUrl
  THEN [img EXCEPT ![exportNode].complete = FALSE]
  ELSE img

\* handleDataChange: setCvData(newData)
handleDataChange(newData) ==
  /\ cvData' = newData
  /\ img' = imgAfterData(newData)

\* the summary textarea: updateSummary(value)
updateSummary(v) ==
  /\ ContainerMounted
  /\ v # cvData.summary
  /\ handleDataChange([cvData EXCEPT !.summary = v])
  /\ UNCHANGED <<mounted, thumbColors, selectedTemplate, previewMode, templateColor, previewScale, editedFields,
                 scaleVars, exportNode, exportVars, editorVars, renderVars>>

\* the file input's onChange: a FileReader is started; its onload closes over the data prop
PhotoChosen(url) ==
  /\ ContainerMounted
  /\ templates[selectedTemplate].hasPhoto
  /\ reader = <<>>
  /\ reader' = <<[data |-> cvData, result |-> url]>>
  /\ UNCHANGED <<mounted, sessionVars, scaleVars, domVars, exportVars, now, renderVars>>

\* reader.onload: updatePersonalInfo("photoUrl", result) on the data the closure captured
ReaderLoad ==
  /\ reader # <<>>
  /\ mounted
  /\ handleDataChange([reader[1].data EXCEPT !.personalInfo.photoUrl = reader[1].result])
  /\ reader' = <<>>
  /\ UNCHANGED <<mounted, thumbColors, selectedTemplate, previewMode, templateColor, previewScale, editedFields,
                 scaleVars, exportNode, exportVars, now, renderVars>>

\* the "Remove" button: updatePersonalInfo("photoUrl", "")
RemovePhoto ==
  /\ ContainerMounted
  /\ templates[selectedTemplate].hasPhoto
  /\ cvData.personalInfo.photoUrl # ""
  /\ handleDataChange([cvData EXCEPT !.personalInfo.photoUrl = ""])
  /\ UNCHANGED <<mounted, thumbColors, selectedTemplate, previewMode, templateColor, previewScale, editedFields,
                 scaleVars, exportNode, exportVars, editorVars, renderVars>>

\* collection.map(entry => entry.id === id ? { ...entry, [field]: value } : entry)
mapById(entries, id, field, value) ==
  [k \in DOMAIN entries |->
     IF entries[k].id = id THEN [entries[k] EXCEPT ![field] = value] ELSE entries[k]]

\* collection.filter(entry => entry.id !== id)
filterById(entries, id) == SelectSeq(entries, LAMBDA entry : entry.id # id)

\* the ids of the entries of a collection
Ids(entries) == {entries[k].id : k \in DOMAIN entries}

\* time passes: Date.now() advances by a millisecond
Tick ==
  /\ now < MaxClock
  /\ now' = now + 1
  /\ UNCHANGED <<mounted, sessionVars, scaleVars, domVars, exportVars, reader, renderVars>>

\* what the form's handlers leave alone
FormFrame ==
  UNCHANGED <<mounted, thumbColors, selectedTemplate, previewMode, templateColor, previewScale,
              scaleVars, exportNode, exportVars, editorVars, renderVars>>

\* "Add Skill"
addSkill ==
  /\ ContainerMounted
  /\ Len(cvData.skills) < MaxEntries
  /\ LET newSkill == [id |-> ToString(now), name |-> "", level |-> "Intermediate"]
     IN  handleDataChange([cvData EXCEPT !.skills = Append(@, newSkill)])
  /\ UNCHANGED editedFields
  /\ FormFrame

\* the name input and the level select of a skill
updateSkill(id, field, value) ==
  /\ ContainerMounted
  /\ id \in Ids(cvData.skills)
  /\ mapById(cvData.skills, id, field, value) # cvData.skills
  /\ handleDataChange([cvData EXCEPT !.skills = mapById(@, id, field, value)])
  /\ UNCHANGED editedFields
  /\ FormFrame

\* the trash button of a skill
deleteSkill(id) ==
  /\ ContainerMounted
  /\ id \in Ids(cvData.skills)
  /\ handleDataChange([cvData EXCEPT !.skills = filterById(@, id)])
  /\ UNCHANGED editedFields
  /\ FormFrame

\* the field keys of the inputs that are focused: "summary", "personalInfo.fullName" and
\* "skills.<id>.name" of the first placeholder skill
FieldKeys ==
  {<<"summary">>, <<"personalInfo", "fullName">>, <<"skills", "placeholder-1", "name">>}

\* the skills whose level select is used: the first one added and a placeholder one
UpdatedIds == {ToString(0), "placeholder-3"}

\* what the first focus of a field writes: the field's value is cleared
clearedData(fieldKey) ==
  IF fieldKey[1] = "personalInfo" THEN [cvData EXCEPT !.personalInfo[fieldKey[2]] = ""]
  ELSE IF fieldKey[1] = "summary" THEN [cvData EXCEPT !.summary = <<>>]
  ELSE [cvData EXCEPT ![fieldKey[1]] = mapById(@, fieldKey[2], fieldKey[3], "")]

\* a focus handler without the test of the edited flag: the field is cleared on every focus
handleFieldFocusEveryTime(fieldKey) ==
  /\ ContainerMounted
  /\ fieldKey[1] = "skills" => fieldKey[2] \in Ids(cvData.skills)
  /\ editedFields' = editedFields \cup {fieldKey}
  /\ handleDataChange(clearedData(fieldKey))
  /\ FormFrame

\* onFocus of an input: handleFieldFocus(fieldKey)
handleFieldFocus(fieldKey) ==
  /\ ContainerMounted
  /\ fieldKey[1] = "skills" => fieldKey[2] \in Ids(cvData.skills)
  /\ fieldKey \notin editedFields
  /\ editedFields' = editedFields \cup {fieldKey}
  /\ handleDataChange(clearedData(fieldKey))
  /\ FormFrame

\* what the onChange of the input with this field key writes: updatePersonalInfo(field, value),
\* updateSummary(value), or update<Collection>(id, field, value)
typedData(fieldKey, value) ==
  IF fieldKey[1] = "personalInfo" THEN [cvData EXCEPT !.personalInfo[fieldKey[2]] = value]
  ELSE IF fieldKey[1] = "summary" THEN [cvData EXCEPT !.summary = value]
  ELSE [cvData EXCEPT ![fieldKey[1]] = mapById(@, fieldKey[2], fieldKey[3], value)]

\* what the user types into each input
TypedValues ==
  [k \in FieldKeys |-> IF k[1] = "summary" THEN Text(5)
                       ELSE IF k[1] = "personalInfo" THEN "Ada Lovelace" ELSE "TLA+"]

\* the user types into the input with this field key; the input has the focus then, so
\* its onFocus has run
TypeInto(fieldKey) ==
  /\ ContainerMounted
  /\ fieldKey \in editedFields
  /\ fieldKey[1] = "skills" => fieldKey[2] \in Ids(cvData.skills)
  /\ typedData(fieldKey, TypedValues[fieldKey]) # cvData
  /\ handleDataChange(typedData(fieldKey, TypedValues[fieldKey]))
  /\ UNCHANGED editedFields
  /\ FormFrame

(* ------------------------------------------------------------------ *)
(* The export pipeline: handleDownloadPDF                              *)
(* ------------------------------------------------------------------ *)
\* the part of the state a run of handleDownloadPDF writes
ExportState == [runs |-> runs, img |-> img, toasts |-> toasts]

toast(es, r, title) == [es EXCEPT !.toasts[r] = Append(@, title)]

\* an exception that leaves the async function: the promise rejects, nothing is notified
Uncaught(es, r) == [es EXCEPT !.runs[r].pc = "threw"]

\* the catch block: console.error, then the destructive notification
Catch(es, r) == toast([es EXCEPT !.runs[r].pc = "failed"], r, FAILED)

\* html2pdf().set(opt).from(element).save() is called with element = exportRef.current
InvokeRaster(es, r, ref) ==
  [es EXCEPT !.runs[r] = [@ EXCEPT !.pc = "raster", !.awaits = 0, !.element = ref]]

\* an image wait that takes a missing subtree for one without imgs
AwaitImagesOfAny(es, r, ref) ==
  IF ref # 0 /\ es.img[ref].exists /\ ~es.img[ref].complete
  THEN [es EXCEPT !.img[ref].handler = r,
                  !.runs[r] = [@ EXCEPT !.pc = "images", !.awaits = ref]]
  ELSE [es EXCEPT !.runs[r] = [@ EXCEPT !.pc = "raster", !.awaits = 0, !.element = ref]]

\* after the font wait: the imgs of exportRef.current are collected; a complete img is
\* resolved at once, any other gets onload = onerror = the run's resolver
AwaitImages(es, r, ref) ==
  IF ref = 0 THEN Catch(es, r)
  ELSE IF es.img[ref].exists /\ ~es.img[ref].complete
       THEN [es EXCEPT !.img[ref].handler = r,
                       !.runs[r] = [@ EXCEPT !.pc = "images", !.awaits = ref]]
       ELSE InvokeRaster(es, r, ref)

\* the start of the try block: the first notification, then the font wait
\* (skipped when document has no fonts, over at once when fonts.ready is settled)
StartExport(es, r, ref) ==
  LET es1 == toast(es, r, GENERATING)
  IN  IF hasFontsAPI /\ fontsLoading
      THEN [es1 EXCEPT !.runs[r].pc = "fonts"]
      ELSE AwaitImages(es1, r, ref)

\* a guard that never returns early
noExportSourceNever(ref, template) == FALSE

\* the guard of handleDownloadPDF: !exportRef.current || !selectedTemplate
noExportSource(ref, template) == ref = 0 \/ template = NULL

\* a handler that returns early while an earlier run is still in flight
handleDownloadPDFSerialized ==
  /\ mounted
  /\ started < MaxRuns
  /\ started' = started + 1
  /\ LET r == started + 1
         busy == \E q \in Runs : runs[q].pc \in {"fonts", "images", "raster"}
         es == IF noExportSource(exportNode, selectedTemplate) \/ busy
               THEN [ExportState EXCEPT !.runs[r].pc = "noop"]
               ELSE StartExport(ExportState, r, exportNode)
     IN  /\ runs' = es.runs
         /\ img' = Collect(es.img, exportNode, es.runs)
         /\ toasts' = es.toasts
  /\ UNCHANGED <<mounted, sessionVars, scaleVars, exportNode, hasFontsAPI,
                 fontsLoading, editorVars, renderVars>>

\* handleDownloadPDF is called for the (started+1)-th time
handleDownloadPDF ==
  /\ mounted
  /\ started < MaxRuns
  /\ started' = started + 1
  /\ LET r == started + 1
         es == IF noExportSource(exportNode, selectedTemplate)
               THEN [ExportState EXCEPT !.runs[r].pc = "noop"]
               ELSE StartExport(ExportState, r, exportNode)
     IN  /\ runs' = es.runs
         /\ img' = Collect(es.img, exportNode, es.runs)
         /\ toasts' = es.toasts
  /\ UNCHANGED <<mounted, sessionVars, scaleVars, exportNode, hasFontsAPI,
                 fontsLoading, editorVars, renderVars>>

\* a font starts loading: document.fonts.ready becomes a pending promise
FontsStartLoading ==
  /\ hasFontsAPI /\ ~fontsLoading
  /\ fontsLoading' = TRUE
  /\ UNCHANGED <<mounted, sessionVars, scaleVars, domVars, hasFontsAPI, runs, started, toasts,
                 editorVars, renderVars>>

\* every run waiting for fonts.ready resumes, in the order in which they awaited it
RECURSIVE resumeAfterFonts(_, _)
resumeAfterFonts(es, r) ==
  IF r > MaxRuns THEN es
  ELSE resumeAfterFonts(IF es.runs[r].pc = "fonts" THEN AwaitImages(es, r, exportNode) ELSE es,
                        r + 1)

\* each run waiting for fonts.ready ends in the catch block
RECURSIVE failAfterFonts(_, _)
failAfterFonts(es, r) ==
  IF r > MaxRuns THEN es
  ELSE failAfterFonts(IF es.runs[r].pc = "fonts" THEN Catch(es, r) ELSE es, r + 1)

\* a font wait whose rejection reaches the outer catch block
FontsSettleRejectionCaught(rejects) ==
  /\ hasFontsAPI /\ fontsLoading
  /\ fontsLoading' = FALSE
  /\ LET es == IF rejects THEN failAfterFonts(ExportState, 1)
               ELSE resumeAfterFonts(ExportState, 1)
     IN  /\ runs' = es.runs
         /\ img' = Collect(es.img, exportNode, es.runs)
         /\ toasts' = es.toasts
  /\ UNCHANGED <<mounted, sessionVars, scaleVars, exportNode, hasFontsAPI, started,
                 editorVars, renderVars>>

\* document.fonts.ready settles; the inner try/catch swallows a rejection
FontsSettle(rejects) ==
  /\ hasFontsAPI /\ fontsLoading
  /\ fontsLoading' = FALSE
  /\ LET es == resumeAfterFonts(ExportState, 1)
     IN  /\ runs' = es.runs
         /\ img' = Collect(es.img, exportNode, es.runs)
         /\ toasts' = es.toasts
  /\ UNCHANGED <<mounted, sessionVars, scaleVars, exportNode, hasFontsAPI, started,
                 editorVars, renderVars>>

\* the img of generation g finishes loading or fails: load or error is dispatched, and
\* the handler in img.onload / img.onerror resolves the promise of the run that set it
ImageFire(g) ==
  /\ img[g].exists /\ ~img[g].complete
  /\ LET es0 == [ExportState EXCEPT !.img[g].complete = TRUE]
         h == img[g].handler
         es == IF h # 0 /\ es0.runs[h].pc = "images" /\ es0.runs[h].awaits = g
               THEN InvokeRaster(es0, h, exportNode)
               ELSE es0
     IN  /\ runs' = es.runs
         /\ img' = Collect(es.img, exportNode, es.runs)
         /\ toasts' = es.toasts
  /\ UNCHANGED <<mounted, sessionVars, scaleVars, exportNode, hasFontsAPI,
                 fontsLoading, started, editorVars, renderVars>>

\* the end of the try block once save() has settled
AfterRaster(es, r, throws) ==
  IF throws THEN Catch(es, r)
  ELSE toast([es EXCEPT !.runs[r].pc = "ok"], r, DOWNLOADED)

\* the rasterization collaborator returns or throws (what it did is kept in the run;
\* the local element goes out of scope when the function ends)
RasterSettle(r, throws) ==
  /\ runs[r].pc = "raster"
  /\ LET settled == [ExportState EXCEPT
                      !.runs[r].raster = IF throws THEN "threw" ELSE "returned",
                      !.runs[r].element = 0]
         es == AfterRaster(settled, r, throws)
     IN  /\ runs' = es.runs
         /\ img' = Collect(es.img, exportNode, es.runs)
         /\ toasts' = es.toasts
  /\ UNCHANGED <<mounted, sessionVars, scaleVars, exportNode, hasFontsAPI,
                 fontsLoading, started, editorVars, renderVars>>

(* ------------------------------------------------------------------ *)
(* Rendering of CVPreview instances                                    *)
(* ------------------------------------------------------------------ *)
\* instance i is rendered with props p and committed
Render(i, p) ==
  /\ instMounted' = [instMounted EXCEPT ![i] = TRUE]
  /\ instProps' = [instProps EXCEPT ![i] = p]
  /\ instTree' = [instTree EXCEPT ![i] = CVPreview(p)]
  /\ instColor' = [instColor EXCEPT ![i] = p.template.color]
  /\ instVars' = [instVars EXCEPT ![i] = colorVars(p.template.color)]
  /\ documentStyle' = documentStyleAfterCommit(documentStyle, p.template.color)
  /\ UNCHANGED <<mounted, sessionVars, scaleVars, domVars, exportVars, editorVars,
                 timeZone, progressData, progress>>

\* instance i is rendered with template.color = c
RenderInstance(i, c) == Render(i, [instProps[i] EXCEPT !.template.color = c])

\* the parent re-renders instance i with one field of its data prop changed
RenderData(i, field, value) ==
  /\ instProps[i].data[field] # value
  /\ Render(i, [instProps[i] EXCEPT !.data[field] = value])

\* the parent re-renders instance i with another template (the colour is kept)
RenderTemplate(i, id) ==
  /\ instProps[i].template.id # id
  /\ Render(i, [instProps[i] EXCEPT !.template = templateProp(id, @.color)])

\* instance i is removed from the document
UnmountInstance(i) ==
  /\ instMounted[i]
  /\ instMounted' = [instMounted EXCEPT ![i] = FALSE]
  /\ UNCHANGED <<mounted, sessionVars, scaleVars, domVars, exportVars, editorVars,
                 instColor, instVars, instProps, instTree, documentStyle, timeZone,
                 progressData, progress>>

\* CVProgress is rendered with the data prop d
RenderProgress(d) ==
  /\ d # progressData
  /\ progressData' = d
  /\ progress' = calculateCompleteness(d)
  /\ UNCHANGED <<mounted, sessionVars, scaleVars, domVars, exportVars, editorVars,
                 instColor, instVars, instMounted, instProps, instTree, documentStyle, timeZone>>

\* the host's time zone changes (the system setting, or the machine travels)
TimeZoneChange(tz) ==
  /\ tz # timeZone
  /\ timeZone' = tz
  /\ UNCHANGED <<mounted, sessionVars, scaleVars, domVars, exportVars, editorVars,
                 instColor, instVars, instMounted, instProps, instTree, documentStyle,
                 progressData, progress>>

(* ------------------------------------------------------------------ *)
(* Specifications                                                      *)
(* ------------------------------------------------------------------ *)
\* the export pipeline starts from a session whose container has the canvas width
InitExport == Init /\ clientWidth = cvWidth

\* the specifications of the form and of the renderer start where no font is loading
InitPreview == InitExport /\ hasFontsAPI /\ ~fontsLoading

\* the templates chosen in the runs of the export pipeline: one with a photo slot and
\* the one without (the pipeline reads nothing else of a template)
ExportTemplates == {"professional", "minimal"}

\* the session controller with its export pipeline
Next ==
  \/ \E t \in ExportTemplates : handleTemplateSelect(t)
  \/ BackToTemplates
  \/ Unmount
  \/ \E u \in PhotoUrls : PhotoChosen(u)
  \/ ReaderLoad
  \/ RemovePhoto
  \/ handleDownloadPDF
  \/ FontsStartLoading
  \/ \E b \in BOOLEAN : FontsSettle(b)
  \/ \E g \in Mounts : ImageFire(g)
  \/ \E r \in Runs, b \in BOOLEAN : RasterSettle(r, b)

Spec == InitExport /\ [][Next]_vars

\* the session controller with its scale-to-fit effect
NextScale ==
  \/ RunEffect
  \/ \E w \in Widths : Resize(w)
  \/ \E t \in TemplateIds : handleTemplateSelect(t)
  \/ BackToTemplates
  \/ TogglePreview
  \/ \E c \in colorOptions : SetTemplateColor(c)
  \/ \E v \in Summaries : updateSummary(v)
  \/ Unmount

SpecScale == Init /\ [][NextScale]_vars

NextRender == \E i \in Instances, c \in ColorNames : RenderInstance(i, c)

SpecRender == Init /\ [][NextRender]_vars

\* --- the session controller with the form layer
NextForm ==
  \/ \E t \in ExportTemplates : handleTemplateSelect(t)
  \/ BackToTemplates
  \/ Tick
  \/ addSkill
  \/ \E id \in UpdatedIds : updateSkill(id, "level", "Expert")
  \/ \E id \in Ids(cvData.skills) : deleteSkill(id)
  \/ \E k \in FieldKeys : handleFieldFocus(k)

SpecForm == InitPreview /\ [][NextForm]_vars

\* --- the template chooser with its colour swatches, and the colour buttons of the builder
ThumbTemplates == {"professional", "creative"}

ThumbColorChoices == {"rose", "blue"}

NextChooser ==
  \/ \E t \in ThumbTemplates, c \in ThumbColorChoices : SetThumbColor(t, c)
  \/ \E t \in TemplateIds : handleTemplateSelect(t)
  \/ BackToTemplates
  \/ \E c \in colorOptions : SetTemplateColor(c)

SpecChooser == InitPreview /\ [][NextChooser]_vars

\* --- the session controller with the inputs of the form: focus, typing, the trash
\* --- button of a skill, and a photo upload in the background
NextFocus ==
  \/ \E t \in ExportTemplates : handleTemplateSelect(t)
  \/ BackToTemplates
  \/ TogglePreview
  \/ \E k \in FieldKeys : handleFieldFocus(k)
  \/ \E k \in FieldKeys : TypeInto(k)
  \/ \E id \in {"placeholder-1"} : deleteSkill(id)
  \/ \E u \in PhotoUrls : PhotoChosen(u)
  \/ ReaderLoad

SpecFocus == InitPreview /\ [][NextFocus]_vars

\* --- the session controller with the photo upload of the form and the edits that can
\* --- be made while the file is read
NextUpload ==
  \/ \E t \in ExportTemplates : handleTemplateSelect(t)
  \/ BackToTemplates
  \/ \E u \in PhotoUrls : PhotoChosen(u)
  \/ ReaderLoad
  \/ RemovePhoto
  \/ \E v \in Summaries : updateSummary(v)
  \/ \E k \in FieldKeys : handleFieldFocus(k)

SpecUpload == InitPreview /\ [][NextUpload]_vars

\* --- the renderer as a function of its props: one instance, re-rendered with one prop
\* --- changed at a time
SkillLevels == {"Beginner", "Intermediate", "Advanced", "Expert", "", "Master", "constructor"}

SkillLists ==
  {<<>>}
    \cup {<<[id |-> "1", name |-> "Skill", level |-> l]>> : l \in SkillLevels}
    \cup {<<[id |-> "1", name |-> "Skill", level |-> "Expert"],
            [id |-> "2", name |-> "Other", level |-> "Beginner"]>>}

EndDates == {NoDate, <<2020, 1>>}

WorkLists ==
  {<<>>}
    \cup {<<[id |-> "1", jobTitle |-> "Engineer", company |-> "Company",
             startDate |-> <<2019, 3>>, endDate |-> d, current |-> c,
             responsibilities |-> <<Text(3), Blank(2)>>]>> : d \in EndDates, c \in BOOLEAN}

PreviewSummaries == {<<>>, Blank(2), Text(5), <<" ", "x", " ">>}

OtherCollections == {"education", "languages", "certifications", "references"}

\* personalInfo with every field set but the photo, and with every field cleared
PreviewPersonalInfos == {placeholderData.personalInfo, initialCVData.personalInfo}

\* the on-screen preview of the builder view
PreviewInstances == {1}

NextPreview ==
  \E i \in PreviewInstances :
    \/ \E sk \in SkillLists : RenderData(i, "skills", sk)
    \/ \E we \in WorkLists : RenderData(i, "workExperience", we)
    \/ \E su \in PreviewSummaries : RenderData(i, "summary", su)
    \/ \E c \in OtherCollections : RenderData(i, c, placeholderData[c])
    \/ \E c \in OtherCollections : RenderData(i, c, <<>>)
    \/ \E pi \in PreviewPersonalInfos : RenderData(i, "personalInfo", pi)
    \/ \E t \in TemplateIds : RenderTemplate(i, t)

SpecPreview == InitPreview /\ [][NextPreview]_vars

\* a CV with one dated work-experience entry
datedData ==
  [initialCVData EXCEPT
     !.workExperience = <<[id |-> "1", jobTitle |-> "Engineer", company |-> "Company",
                           startDate |-> <<2020, 1>>, endDate |-> <<2021, 6>>,
                           current |-> FALSE, responsibilities |-> <<Text(3)>>]>>]

\* --- the progress indicator as a function of its data prop, one field changed at a time
ProgressFieldValues ==
  [ fullName |-> {"", "Ada Lovelace"},
    email |-> {"", "ada@example.com"},
    phone |-> {"", "555-0100"} ]

ProgressCollectionValues ==
  [ workExperience |-> {<<>>, placeholderData.workExperience, datedData.workExperience},
    education |-> {<<>>, placeholderData.education,
                   <<[placeholderData.education[1] EXCEPT !.degree = ""]>>},
    skills |-> {<<>>, placeholderData.skills,
                <<[id |-> "1", name |-> "", level |-> "Intermediate"]>>},
    languages |-> {<<>>, placeholderData.languages},
    certifications |-> {<<>>, placeholderData.certifications},
    references |-> {<<>>, placeholderData.references} ]

ProgressSummaries == {<<>>, Blank(2), Text(20), Text(21)}

NextProgress ==
  \/ \E f \in DOMAIN ProgressFieldValues : \E v \in ProgressFieldValues[f] :
       RenderProgress([progressData EXCEPT !.personalInfo[f] = v])
  \/ \E su \in ProgressSummaries : RenderProgress([progressData EXCEPT !.summary = su])
  \/ \E c \in DOMAIN ProgressCollectionValues : \E v \in ProgressCollectionValues[c] :
       RenderProgress([progressData EXCEPT ![c] = v])

SpecProgress == InitPreview /\ [][NextProgress]_vars

\* --- several instances side by side, mounted and unmounted in any order, on a host
\* --- whose time zone can change
TimeZones == {-5, 0, 1}

\* the flags of the on-screen preview and of the hidden export node of the builder view
TreeFlags ==
  { [isPreview |-> TRUE, isPDF |-> FALSE, unbounded |-> TRUE],
    [isPreview |-> FALSE, isPDF |-> TRUE, unbounded |-> TRUE] }

TreeProps ==
  { [data |-> datedData, template |-> templateProp("professional", c),
     isPreview |-> f.isPreview, isPDF |-> f.isPDF, unbounded |-> f.unbounded] :
      c \in {"rose", "purple"}, f \in TreeFlags }

NextTree ==
  \/ \E i \in Instances, p \in TreeProps : Render(i, p)
  \/ \E i \in Instances : UnmountInstance(i)
  \/ \E tz \in TimeZones : TimeZoneChange(tz)

SpecTree == InitPreview /\ [][NextTree]_vars

\* the export pipeline under the scheduling the environment guarantees: font readiness
\* settles, every loading image fires load or error, the collaborator returns or throws
FairSpec ==
  /\ Spec
  /\ WF_vars(\E b \in BOOLEAN : FontsSettle(b))
  /\ \A g \in Mounts : WF_vars(ImageFire(g))
  /\ \A r \in Runs : WF_vars(\E b \in BOOLEAN : RasterSettle(r, b))

(* ------------------------------------------------------------------ *)
(* Properties                                                          *)
(* ------------------------------------------------------------------ *)
Min(a, b) == IF a < b THEN a ELSE b

\* previewScale = min(width / 794, 1), as an equation between integers
ScaleFits(scale, width) == scale.num * cvWidth = Min(width, cvWidth) * scale.den

\* C1: a run whose rasterization call threw has ended in the failure outcome: its
\* notifications are "Generating PDF..." then "Download Failed", never "PDF Downloaded!",
\* and no run ends with an exception that left handleDownloadPDF
C1_RasterThrowFails ==
  \A r \in Runs :
    /\ runs[r].pc # "threw"
    /\ runs[r].raster = "threw" =>
         /\ runs[r].pc = "failed"
         /\ toasts[r] = <<GENERATING, FAILED>>

C1_Witness == \E r \in Runs : runs[r].raster = "threw" /\ runs[r].pc = "failed"

\* C2: every export that passed the guard eventually ends with the success or the
\* failure notification
C2_EveryExportEnds ==
  \A r \in Runs :
    (runs[r].pc \in {"fonts", "images", "raster"}) ~> (runs[r].pc \in {"ok", "failed"})

\* C3: when the rasterization collaborator is invoked, the run's font wait is over and
\* the img of the export subtree handed to it has loaded or failed
C3_RasterAfterFontsAndImages ==
  [][\A r \in Runs :
       (runs[r].pc # "raster" /\ runs'[r].pc = "raster") =>
          /\ runs[r].pc = "none" => ~(hasFontsAPI /\ fontsLoading)
          /\ runs[r].pc = "fonts" => ~fontsLoading'
          /\ exportNode # 0 /\ img'[exportNode].exists => img'[exportNode].complete]_vars

\* C4: a call of handleDownloadPDF with no export subtree or no selected template
\* notifies nothing, invokes no rasterization and changes no session state
C4_GuardedCallIsNoOp ==
  [][(started' = started + 1 /\ (exportNode = 0 \/ selectedTemplate = NULL)) =>
        /\ toasts' = toasts
        /\ \A r \in Runs : runs'[r].pc \in {runs[r].pc, "noop"}
        /\ UNCHANGED <<mounted, sessionVars, scaleVars, domVars, editorVars>>]_vars

C4_Witness == \E r \in Runs : runs[r].pc = "noop" /\ toasts[r] = <<>>

\* C5 as stated: an export triggered with no content reference ends with the failure
\* notification
C5_NoReferenceNotifiesFailure ==
  \A r \in Runs : runs[r].pc = "noop" => FAILED \in {toasts[r][i] : i \in DOMAIN toasts[r]}

\* C5 amended: a trigger with no content reference notifies nothing at all; the failure
\* notification is emitted when the reference is found missing after the font wait
C5_NoReferenceSilentAtTrigger ==
  [][/\ (started' = started + 1 /\ (exportNode = 0 \/ selectedTemplate = NULL)) =>
          /\ runs'[started + 1].pc = "noop"
          /\ toasts'[started + 1] = <<>>
     /\ \A r \in Runs :
          (runs[r].pc = "fonts" /\ runs'[r].pc # "fonts" /\ exportNode = 0) =>
             /\ runs'[r].pc = "failed"
             /\ toasts'[r] = <<GENERATING, FAILED>>]_vars

C5_Witness == \E r \in Runs : runs[r].pc = "failed" /\ runs[r].raster = "none"

\* C6: previewScale never exceeds 1, and every value calculateScale writes is
\* min(containerWidth / 794, 1) for the width the container has at that moment
C6_ScaleBound ==
  /\ [](previewScale.num <= previewScale.den)
  /\ [][(mounted' /\ previewScale' # previewScale) => ScaleFits(previewScale', clientWidth')]_vars

C6_Witness == ContainerMounted /\ previewScale.num < previewScale.den

\* C7: whenever the editor view is displayed and no effect is pending, previewScale is
\* min(current container width / 794, 1)
C7_ScaleCurrentInEditor ==
  (ContainerMounted /\ ~effectPending) => ScaleFits(previewScale, clientWidth)

C7_Witness ==
  /\ ContainerMounted /\ ~effectPending
  /\ previewScale.num < previewScale.den
  /\ registered = {FALSE}

\* C8: while the full preview is active or the container is not mounted, a resize
\* event or a run of the effect leaves all session state as it is
C8_HiddenRecomputeIsNoOp ==
  [][(/\ mounted /\ mounted'
      /\ previewMode \/ ~ContainerMounted
      /\ selectedTemplate' = selectedTemplate /\ previewMode' = previewMode
      /\ clientWidth' # clientWidth \/ (effectPending /\ ~effectPending'))
     => UNCHANGED sessionVars]_vars

C8_Witness ==
  /\ BuilderView /\ previewMode /\ ~effectPending
  /\ listeners[TRUE] = 1
  /\ ~ScaleFits(previewScale, clientWidth)

\* C9: at most one resize listener of CVBuilder is attached to window, it is the one
\* the last run of the effect added, and none is attached after the teardown
C9_OneResizeListener ==
  /\ NumListeners <= 1
  /\ \A pm \in BOOLEAN : listeners[pm] = (IF pm \in registered THEN 1 ELSE 0)
  /\ ~mounted => NumListeners = 0

C9_Witness == mounted /\ registered = {TRUE} /\ listeners[TRUE] = 1 /\ listeners[FALSE] = 0

\* C10: every instance's palette is the triple of its colour name when that is one of
\* the six known names, and the slate triple for any other string
C10_ColorTotal ==
  \A i \in Instances :
    /\ DOMAIN instVars[i] = {"primary", "secondary", "accent"}
    /\ instVars[i] = IF instColor[i] \in colorOptions THEN colorMap[instColor[i]]
                     ELSE colorMap["slate"]

C10_Witness ==
  \E i \in Instances : instColor[i] = "constructor" /\ instVars[i] = colorMap["slate"]

\* the sections of a tree with the given heading, wherever the layout puts them
SectionsTitled(tree, title) ==
  SelectSeq(tree.body.sidebar.sections \o tree.body.sections, LAMBDA sec : sec.title = title)

\* the number getSkillLevel is specified to return
SpecifiedSkillLevel(level) ==
  IF level = "Beginner" THEN 25
  ELSE IF level = "Advanced" THEN 75
  ELSE IF level = "Expert" THEN 100
  ELSE 50

\* C11: every skill bar's width is 25, 50, 75 or 100 percent for the four known levels
\* and 50 percent for any other level string
C11_SkillLevelTotal ==
  \A i \in PreviewInstances :
    LET skills == instProps[i].data.skills
        secs == SectionsTitled(instTree[i], "Skills")
    IN  Len(skills) > 0 =>
          /\ Len(secs) = 1
          /\ \A k \in DOMAIN skills :
               secs[1].items[k].width = [number |-> SpecifiedSkillLevel(skills[k].level)]

\* C12: a work-experience entry with current = true renders "Present" as its end date
\* whatever endDate it stores, in both layouts; any other entry renders formatDate(endDate)
C12_CurrentRendersPresent ==
  \A i \in PreviewInstances :
    LET work == instProps[i].data.workExperience
        secs == SectionsTitled(instTree[i], "Work Experience")
    IN  Len(work) > 0 =>
          /\ Len(secs) = 1
          /\ \A k \in DOMAIN work :
               IF work[k].current
               THEN secs[1].items[k].endDate = <<"Present">>
               ELSE secs[1].items[k].endDate = formatDate(work[k].endDate)

C12_Witness ==
  \E i \in PreviewInstances :
    /\ instProps[i].template.columns = 1
    /\ Len(instProps[i].data.workExperience) = 1
    /\ instProps[i].data.workExperience[1].current
    /\ instProps[i].data.workExperience[1].endDate # NoDate
    /\ SectionsTitled(instTree[i], "Work Experience")[1].items[1].endDate = <<"Present">>

SectionTitle ==
  [ skills |-> "Skills", languages |-> "Languages", certifications |-> "Certifications",
    references |-> "References", workExperience |-> "Work Experience",
    education |-> "Education" ]

\* C13: each of the six collection-backed sections is in the tree exactly when its
\* collection has an entry, in both layouts; one Expert skill gives one bar of 100 percent
C13_SectionIffEntries ==
  \A i \in PreviewInstances :
    /\ \A c \in DOMAIN SectionTitle :
         Len(SectionsTitled(instTree[i], SectionTitle[c]))
           = (IF Len(instProps[i].data[c]) > 0 THEN 1 ELSE 0)
    /\ LET skills == instProps[i].data.skills
       IN  (Len(skills) = 1 /\ skills[1].level = "Expert") =>
              /\ Len(SectionsTitled(instTree[i], "Skills")[1].items) = 1
              /\ SectionsTitled(instTree[i], "Skills")[1].items[1].width = [number |-> 100]

C13_Witness ==
  \E i \in PreviewInstances :
    /\ instProps[i].template.columns = 1
    /\ Len(instProps[i].data.skills) = 1 /\ instProps[i].data.skills[1].level = "Expert"
    /\ instProps[i].data.certifications = <<>> /\ instProps[i].data.references = <<>>
    /\ instProps[i].data.languages # <<>>
    /\ SectionsTitled(instTree[i], "Skills") # <<>>
    /\ SectionsTitled(instTree[i], "Certifications") = <<>>

\* C14: the Professional Summary section is in the tree exactly when data.summary has
\* a character that is not whitespace
C14_SummaryIffNonBlank ==
  \A i \in PreviewInstances :
    (SectionsTitled(instTree[i], "Professional Summary") # <<>>)
      <=> (\E k \in DOMAIN instProps[i].data.summary : instProps[i].data.summary[k] # " ")

\* C15: two mounted instances that were rendered with identical props show identical
\* trees, whatever was rendered before and whatever else is mounted
C15_RenderDeterministic ==
  \A i, j \in Instances :
    (instMounted[i] /\ instMounted[j] /\ instProps[i] = instProps[j]) => instTree[i] = instTree[j]

\* the palette the colour name of an instance stands for
SpecifiedPalette(color) ==
  IF color \in colorOptions THEN colorMap[color] ELSE colorMap["slate"]

\* C16: no render, mount or unmount changes the custom properties of the document
\* element, and every mounted instance resolves the palette of its own colour
C16_ThemeScopedToInstance ==
  /\ documentStyle = NoVars
  /\ \A i \in Instances :
       instMounted[i] => resolvedVars(i) = SpecifiedPalette(instProps[i].template.color)

C16_Witness ==
  \E i, j \in Instances :
    /\ instMounted[i] /\ ~instMounted[j]
    /\ instProps[i].template.color = "rose" /\ instProps[j].template.color = "purple"
    /\ resolvedVars(i) = colorMap["rose"]

\* C17: every handleTemplateSelect leaves cvData = placeholderData, editedFields empty
\* and selectedTemplate the chosen identifier, whatever the session held before
C17_SelectResetsSession ==
  [][(selectedTemplate = NULL /\ selectedTemplate' # NULL) =>
        /\ cvData' = placeholderData
        /\ editedFields' = {}
        /\ selectedTemplate' \in TemplateIds]_vars

C17_Witness ==
  /\ ChooserView
  /\ editedFields # {}
  /\ cvData # placeholderData /\ cvData # initialCVData
  /\ \E k \in DOMAIN cvData.skills : cvData.skills[k].id = ToString(now)

\* C18: a colour change in the builder view changes templateColor only: the selected
\* template, the data, the edited-field flags, the preview mode and the scale stay, and
\* the body of the rendered preview keeps the layout of the selected identifier
C18_ColorChangeFrame ==
  [][(BuilderView /\ mounted' /\ selectedTemplate' # NULL /\ templateColor' # templateColor) =>
        /\ UNCHANGED <<selectedTemplate, cvData, editedFields, previewMode, previewScale>>
        /\ previewProps'.template.columns = templates[selectedTemplate].columns
        /\ previewProps'.template.hasPhoto = templates[selectedTemplate].hasPhoto
        /\ CVPreview(previewProps').body = CVPreview(previewProps).body]_vars

C18_Witness ==
  /\ BuilderView /\ previewMode
  /\ templateColor = "rose" /\ templateColor # templateDefaultColor(selectedTemplate)
  /\ cvData.summary = Text(5)
  /\ previewScale.num < previewScale.den

ProgressNames ==
  <<"Personal Information", "Summary", "Work Experience", "Education", "Skills">>

\* C19: calculateCompleteness returns the five sections in their order, each with a boolean
\* complete flag, and percentage = 20 times the number of complete sections; a change of
\* languages, certifications or references alone never changes the result
C19_CompletenessShape ==
  /\ [](/\ [k \in DOMAIN progress.sections |-> progress.sections[k].name] = ProgressNames
        /\ \A k \in DOMAIN progress.sections :
             DOMAIN progress.sections[k].complete = {"boolean"}
        /\ progress.percentage = 20 * CountComplete(progress.sections)
        /\ progress.percentage \in 0 .. 100)
  /\ [][(\A f \in DOMAIN progressData \ {"languages", "certifications", "references"} :
           progressData'[f] = progressData[f]) => progress' = progress]_vars

\* C20: no two entries of the same collection share an id
C20_IdsUniquePerCollection ==
  \A c \in DOMAIN SectionTitle :
    \A k, m \in DOMAIN cvData[c] : cvData[c][k].id = cvData[c][m].id => k = m

\* the fields of a record that differ between two values of it
ChangedKeys(old, new) == {f \in DOMAIN old : new[f] # old[f]}

\* a collection without its k-th entry
RemoveAt(entries, k) == SubSeq(entries, 1, k - 1) \o SubSeq(entries, k + 1, Len(entries))

\* C21: every form operation changes one part of cvData only: one field of personalInfo,
\* or the summary, or one collection, and in that collection it appends one entry at the
\* end, or removes one entry and keeps the others in order, or changes one field of one
\* entry
C21_FormTouchesOneEntity ==
  [][(mounted' /\ selectedTemplate' = selectedTemplate /\ cvData' # cvData) =>
        /\ Cardinality(ChangedKeys(cvData, cvData')) = 1
        /\ cvData'.personalInfo # cvData.personalInfo =>
             Cardinality(ChangedKeys(cvData.personalInfo, cvData'.personalInfo)) = 1
        /\ \A c \in DOMAIN SectionTitle :
             cvData'[c] # cvData[c] =>
               LET old == cvData[c]
                   new == cvData'[c]
               IN  \/ Len(new) = Len(old) + 1 /\ SubSeq(new, 1, Len(old)) = old
                   \/ \E k \in DOMAIN old : new = RemoveAt(old, k)
                   \/ /\ Len(new) = Len(old)
                      /\ \E k \in DOMAIN old :
                           /\ \A m \in DOMAIN old \ {k} : new[m] = old[m]
                           /\ Cardinality(ChangedKeys(old[k], new[k])) = 1]_vars

\* a run of handleDownloadPDF is between its first notification and its last
InFlight(r) == runs[r].pc \in {"fonts", "images", "raster"}

\* C22: the Download PDF button stays enabled while an export is in flight, and a
\* trigger that passes the guard then starts another run of the pipeline (it notifies
\* "Generating PDF..." and goes on to the waits and the rasterization) and leaves the
\* runs in their waits or at the collaborator where they are
C22_NoInFlightGuard ==
  /\ []((BuilderView /\ started < MaxRuns) => ENABLED handleDownloadPDF)
  /\ [][(started' = started + 1 /\ exportNode # 0 /\ selectedTemplate # NULL) =>
          /\ runs'[started + 1].pc \in {"fonts", "images", "raster"}
          /\ toasts'[started + 1] = <<GENERATING>>
          /\ \A r \in Runs : InFlight(r) => runs'[r] = runs[r]]_vars

C22_Witness ==
  \E r, q \in Runs :
    /\ r # q
    /\ runs[r].pc = "raster" /\ runs[q].pc = "raster"
    /\ runs[r].element # 0 /\ runs[r].element = runs[q].element

\* C23: a run whose font wait ends, by fulfilment or by rejection, and a run started where
\* document has no fonts, goes on to the image wait or the rasterization call with
\* "Generating PDF..." as its only notification, whenever the export subtree is there
C23_FontWaitBestEffort ==
  [][/\ (started' = started + 1 /\ ~hasFontsAPI /\ exportNode # 0 /\ selectedTemplate # NULL) =>
          /\ runs'[started + 1].pc \in {"images", "raster"}
          /\ toasts'[started + 1] = <<GENERATING>>
     /\ \A r \in Runs :
          (runs[r].pc = "fonts" /\ runs'[r].pc # "fonts" /\ exportNode # 0) =>
             /\ runs'[r].pc \in {"images", "raster"}
             /\ toasts'[r] = <<GENERATING>>]_vars

C23_Witness ==
  /\ ~hasFontsAPI
  /\ \E r \in Runs : runs[r].pc = "ok" /\ toasts[r] = <<GENERATING, DOWNLOADED>>

\* C24: whenever the rasterization collaborator is invoked, the builder view is rendered
\* and the element handed over is its hidden export node, whose wrapper has no scale
\* transform and whose CVPreview has isPDF and unbounded set and the cvData, template
\* identity and templateColor of the session at that moment
C24_RasterOnHiddenExportNode ==
  [][\A r \in Runs :
       (runs[r].pc # "raster" /\ runs'[r].pc = "raster") =>
          /\ BuilderView'
          /\ exportNode' # 0 /\ runs'[r].element = exportNode'
          /\ "transform" \notin DOMAIN exportWrapperStyle
          /\ exportProps'.isPDF /\ exportProps'.unbounded
          /\ exportProps'.data = cvData'
          /\ exportProps'.template = previewProps'.template]_vars

\* C25: for template id "creative" every work-experience entry and every education entry
\* has the accent bar, in either layout and for any data; for "minimal" the header has no
\* coloured band and is a bordered block; for any other id there is no accent bar and the
\* band is there
C25_DecorationsByTemplateId ==
  \A i \in PreviewInstances :
    LET id == instProps[i].template.id
        header == instTree[i].body.header
    IN  /\ \A t \in {"Work Experience", "Education"} :
             \A k \in DOMAIN SectionsTitled(instTree[i], t) :
               \A m \in DOMAIN SectionsTitled(instTree[i], t)[k].items :
                 SectionsTitled(instTree[i], t)[k].items[m].accentBar = (id = "creative")
        /\ (header.frame.band = <<>>) <=> (id = "minimal")
        /\ id = "minimal" => header.frame.outer = "cv-header-minimal"

\* C26: in the two-column layout the sidebar has its Contact block exactly when one of
\* email, phone, address and website is set, has no photo slot when photoUrl is empty,
\* and has each of Skills, Languages, Certifications and References exactly when that
\* collection has an entry
C26_SidebarSectionsOmittedWhenEmpty ==
  \A i \in PreviewInstances :
    LET data == instProps[i].data
        sidebar == instTree[i].body.sidebar
    IN  instProps[i].template.columns = 2 =>
          /\ (sidebar.contact # <<>>)
               <=> (\E f \in {"email", "phone", "address", "website"} : data.personalInfo[f] # "")
          /\ data.personalInfo.photoUrl = "" => sidebar.photo = <<>>
          /\ \A c \in {"skills", "languages", "certifications", "references"} :
               (\E k \in DOMAIN sidebar.sections : sidebar.sections[k].title = SectionTitle[c])
                 <=> (Len(data[c]) > 0)

\* C27: when the file read of a photo upload completes, cvData is what it was just
\* before with personalInfo.photoUrl set to the result: every edit made since the file
\* was chosen is still there
C27_UploadKeepsEdits ==
  [][(mounted' /\ reader # <<>> /\ reader' = <<>>) =>
        cvData' = [cvData EXCEPT !.personalInfo.photoUrl = reader[1].result]]_vars

\* the success and failure notifications among the titles a run has passed to toast()
Terminals(r) == SelectSeq(toasts[r], LAMBDA title : title \in {DOWNLOADED, FAILED})

\* the notifications of a run, in order, are nothing yet, or "Generating PDF...", or that
\* followed by one of the two terminal ones
NotificationsInOrder ==
  \A r \in Runs :
    toasts[r] \in {<<>>, <<GENERATING>>, <<GENERATING, DOWNLOADED>>, <<GENERATING, FAILED>>}

\* C28: every run that passed the guard notifies "Generating PDF..." first and then
\* exactly one of "PDF Downloaded!" and "Download Failed": never two, and in the end one;
\* no run that did not pass the guard notifies anything
C28_OneTerminalNotification ==
  /\ [](/\ NotificationsInOrder
        /\ \A r \in Runs : (r > started \/ runs[r].pc = "noop") => toasts[r] = <<>>)
  /\ \A r \in Runs : (toasts[r] = <<GENERATING>>) ~> (Len(Terminals(r)) = 1)

\* C29: every template selection leaves a templateColor that is one of the six names of
\* the colour options and an own key of the colour map, so that exactly one colour button
\* is shown active and the palette rendered is the one of that name
C29_SelectedColorKnown ==
  [][(selectedTemplate = NULL /\ selectedTemplate' # NULL) =>
        /\ templateColor' \in colorOptions
        /\ HasOwnProperty(templateColor')
        /\ Cardinality({c \in colorOptions : templateColor' = c}) = 1
        /\ colorVars(templateColor') = colorMap[templateColor']]_vars

\* the value of the field an input with this field key shows, or undefined when its
\* entry is no longer in the collection
FieldValue(data, fieldKey) ==
  IF fieldKey[1] = "personalInfo" THEN Str(data.personalInfo[fieldKey[2]])
  ELSE IF fieldKey[1] = "summary" THEN Txt(data.summary)
  ELSE IF fieldKey[2] \in Ids(data[fieldKey[1]])
       THEN Str((CHOOSE e \in {data[fieldKey[1]][n] : n \in DOMAIN data[fieldKey[1]]} :
                   e.id = fieldKey[2])[fieldKey[3]])
       ELSE UNDEFINED

\* C30: while one template stays selected, the edited flags only grow; the step that
\* flags a field is the one focus that clears it, and it leaves every other field as it
\* is; no input event empties a field that is flagged, so what was typed into it stays
\* until the user types again or deletes the entry; a template selection drops all flags
C30_ClearedOnFirstFocusOnly ==
  [][/\ (mounted' /\ selectedTemplate # NULL /\ selectedTemplate' = selectedTemplate) =>
          /\ editedFields \subseteq editedFields'
          /\ \A k \in FieldKeys :
               LET before == FieldValue(cvData, k)
                   after == FieldValue(cvData', k)
               IN  /\ (k \notin editedFields /\ k \in editedFields') =>
                        /\ ~Truthy(after)
                        /\ \A j \in FieldKeys \ {k} :
                             FieldValue(cvData', j) = FieldValue(cvData, j)
                   /\ (k \in editedFields /\ reader' = reader
                         /\ after # before /\ after # UNDEFINED) => Truthy(after)
     /\ (selectedTemplate = NULL /\ selectedTemplate' # NULL) => editedFields' = {}]_vars

C30_Witness ==
  /\ ContainerMounted
  /\ editedFields = FieldKeys
  /\ FieldValue(cvData, <<"personalInfo", "fullName">>) = Str("Ada Lovelace")
  /\ FieldValue(cvData, <<"summary">>) = Txt(<<>>)
  /\ FieldValue(cvData, <<"skills", "placeholder-1", "name">>) = Str("TLA+")

====
